---- MODULE Spec2Model ----
(***************************************************************************)
(* The update-ingestion and dispatch pipeline of aggregate_payments_test:  *)
(* tgbot.py (BotBase, BotUpdateHandlerMixin), main.py (main, handle_cmds,  *)
(* handle_query, send_messages) and aggregation.py (Aggregator), as one    *)
(* asyncio event loop.  Every action is one step of one task between two   *)
(* suspension points (await), or one answer of the network.                *)
(***************************************************************************)
EXTENDS Integers, Sequences, FiniteSets, TLC

\* ------------------------------------------------------------------ bounds
\* longest batch one getUpdates answer carries in the model
MaxBatch == 2

\* days the clock of the model can show
MaxDay == 8
Days == 0..MaxDay

\* ------------------------------------------------------- program constants
\* BotUpdateHandlerMixin.offset / last_update_id / _reset_period (days)
InitOffset == 1
InitLastUpdateId == 0
ResetPeriodDays == 7

\* Python's None
None == "None"

\* --------------------------------------------------------------- sequences
Min(a, b) == IF a < b THEN a ELSE b
Max(a, b) == IF a > b THEN a ELSE b

\* Python's s[a:b] and s[a:] on a string held as a sequence of characters
\* (0-based, half-open, indices clipped to the length).
Slice(s, a, b) == SubSeq(s, Min(a, Len(s)) + 1, Min(b, Len(s)))
SliceFrom(s, a) == SubSeq(s, Min(a, Len(s)) + 1, Len(s))

\* ------------------------------------------------------------ message text
\* A message text is a sequence of tokens.  A command text is spelled one
\* character per token; a JSON text is spelled with one token per
\* punctuation mark, number or quoted string.  QuotedStrings lists the
\* string literals of the model with both spellings.
QuotedStrings ==
    { [dq |-> "\"dt_from\"",    sq |-> "'dt_from'",    w |-> "dt_from"],
      [dq |-> "\"dt_upto\"",    sq |-> "'dt_upto'",    w |-> "dt_upto"],
      [dq |-> "\"group_type\"", sq |-> "'group_type'", w |-> "group_type"],
      [dq |-> "\"2022-09-01\"", sq |-> "'2022-09-01'", w |-> "2022-09-01"],
      [dq |-> "\"2022-12-31\"", sq |-> "'2022-12-31'", w |-> "2022-12-31"],
      [dq |-> "\"month\"",      sq |-> "'month'",      w |-> "month"] }

IsDqString(tok) == \E r \in QuotedStrings : r.dq = tok
IsSqString(tok) == \E r \in QuotedStrings : r.sq = tok
DqWord(tok) == (CHOOSE r \in QuotedStrings : r.dq = tok).w
IsNumber(tok) == tok \in {"0", "1"}

\* msg.replace("'", "\""): every single quote becomes a double quote
ReplaceQuotes(msg) ==
    [i \in 1..Len(msg) |->
        IF IsSqString(msg[i])
        THEN (CHOOSE r \in QuotedStrings : r.sq = msg[i]).dq
        ELSE msg[i]]

\* json.loads on a token sequence: a number, a string, an empty list, or an
\* object of string keys and scalar values; anything else JSONDecodeError.
\* A parsed object is the list of its (key, value) pairs, a later duplicate
\* key replacing the earlier one.
IsScalar(tok) == IsDqString(tok) \/ IsNumber(tok)

IsPairList(toks) ==
    /\ Len(toks) % 4 = 3
    /\ \A i \in 1..Len(toks) :
          CASE i % 4 = 1 -> IsDqString(toks[i])
            [] i % 4 = 2 -> toks[i] = ":"
            [] i % 4 = 3 -> IsScalar(toks[i])
            [] OTHER     -> toks[i] = ","

RECURSIVE PairsOf(_)
PairsOf(toks) ==
    IF Len(toks) < 3 THEN << >>
    ELSE LET k == DqWord(toks[1])
             rest == PairsOf(SubSeq(toks, 5, Len(toks)))
         IN  IF \E j \in 1..Len(rest) : rest[j].k = k
             THEN rest
             ELSE << [k |-> k, v |-> toks[3]] >> \o rest

JSONDecodeError == [ok |-> FALSE, type |-> "JSONDecodeError", val |-> << >>]

json_loads(msg) ==
    IF Len(msg) = 1 /\ IsNumber(msg[1])
      THEN [ok |-> TRUE, type |-> "int", val |-> << >>]
    ELSE IF Len(msg) = 1 /\ IsDqString(msg[1])
      THEN [ok |-> TRUE, type |-> "str", val |-> << >>]
    ELSE IF msg = << "[", "]" >>
      THEN [ok |-> TRUE, type |-> "list", val |-> << >>]
    ELSE IF Len(msg) >= 2 /\ msg[1] = "{" /\ msg[Len(msg)] = "}"
      THEN LET inner == SubSeq(msg, 2, Len(msg) - 1)
           IN  IF inner = << >>
                 THEN [ok |-> TRUE, type |-> "dict", val |-> << >>]
               ELSE IF IsPairList(inner)
                 THEN [ok |-> TRUE, type |-> "dict", val |-> PairsOf(inner)]
               ELSE JSONDecodeError
    ELSE JSONDecodeError

\* BotUpdateHandlerMixin._deserialize: strict parse, then one retry with the
\* single quotes replaced; the second JSONDecodeError propagates.
_deserialize(msg) ==
    IF json_loads(msg).ok THEN json_loads(msg)
    ELSE json_loads(ReplaceQuotes(msg))

\* ------------------------------------------------------------------ updates
\* The chats, the registered commands (main.py: start, help) and the sample
\* messages the platform may deliver.  A dict of the platform is a record
\* whose domain is the set of keys present.
BotCommand(n) == [type |-> "bot_command", offset |-> 0, length |-> n]
BotCommandAt(o, n) == [type |-> "bot_command", offset |-> o, length |-> n]
Mention(o, n) == [type |-> "mention", offset |-> o, length |-> n]

\* bot.commands as main.py:209 means it to be: start and help.  (As written,
\* BotCommandBase.__init__ passes description=None to a setter that catches
\* only TypeError, so add_commands raises AttributeError before storing the
\* command; the pipeline is modelled with the registry filled.)
commands == { << "s", "t", "a", "r", "t" >>, << "h", "e", "l", "p" >> }

Chat(c) == [id |-> c]

Messages ==
    { \* "/help x" with its bot_command entity
      [chat |-> Chat(7), text |-> << "/", "h", "e", "l", "p", " ", "x" >>,
       entities |-> << BotCommand(5) >>],
      \* "/help /foo": two bot_command entities
      [chat |-> Chat(7),
       text |-> << "/", "h", "e", "l", "p", " ", "/", "f", "o", "o" >>,
       entities |-> << BotCommand(5), BotCommandAt(6, 4) >>],
      \* "/foo": a command nobody registered
      [chat |-> Chat(7), text |-> << "/", "f", "o", "o" >>,
       entities |-> << BotCommand(4) >>],
      \* "/ @b": starts with the marker, its only entity is a mention
      [chat |-> Chat(7), text |-> << "/", " ", "@", "b" >>,
       entities |-> << Mention(2, 2) >>],
      \* "/": starts with the marker, no entities key at all
      [chat |-> Chat(7), text |-> << "/" >>],
      \* "{}"
      [chat |-> Chat(7), text |-> << "{", "}" >>],
      \* {"dt_from":"2022-09-01","dt_upto":"2022-12-31","group_type":"month"}
      [chat |-> Chat(8),
       text |-> << "{", "\"dt_from\"", ":", "\"2022-09-01\"", ",",
                   "\"dt_upto\"", ":", "\"2022-12-31\"", ",",
                   "\"group_type\"", ":", "\"month\"", "}" >>],
      \* {'dt_from':'2022-09-01','dt_upto':'2022-12-31'}
      [chat |-> Chat(8),
       text |-> << "{", "'dt_from'", ":", "'2022-09-01'", ",",
                   "'dt_upto'", ":", "'2022-12-31'", "}" >>],
      \* "[]": JSON, not an object
      [chat |-> Chat(7), text |-> << "[", "]" >>],
      \* "hi": not JSON
      [chat |-> Chat(7), text |-> << "h", "i" >>],
      \* a photo: no text
      [chat |-> Chat(7)],
      \* "hi" carrying its timestamp (day 3)
      [chat |-> Chat(7), text |-> << "h", "i" >>, date |-> 3],
      \* no chat
      [text |-> << "{", "}" >>] }

\* The bodies of an Update besides update_id: a message, an edited message,
\* or neither.
Bodies ==
    { [message |-> m] : m \in Messages }
      \cup { [edited_message |-> [chat |-> Chat(8), text |-> << "{", "}" >>]] }
      \cup { [other |-> TRUE] }

WithId(body, i) ==
    [k \in DOMAIN body \cup {"update_id"} |->
        IF k = "update_id" THEN i ELSE body[k]]

\* first update id the platform hands out in the model
BaseId == 10

IdOrders(n) ==
    { p \in [1..n -> BaseId..(BaseId + n - 1)] :
        \A i, j \in 1..n : i # j => p[i] # p[j] }

\* The answers of getUpdates with ok = true: up to MaxBatch updates with
\* distinct ids, in any order.
Batches ==
    UNION { { [i \in 1..n |-> WithId(b[i], p[i])] :
                b \in [1..n -> Bodies], p \in IdOrders(n) } :
            n \in 0..MaxBatch }

\* ------------------------------------------------------------ MessageParser
\* The outcome of process_message on one message object: a command for
\* cmds_pending, a query for queries, nothing (dropped), or an exception
\* that the except clause does not list.
Dropped == [kind |-> "drop", chat |-> 0, cmd |-> << >>, params |-> << >>, exc |-> None]
Raised(e) == [kind |-> "raise", chat |-> 0, cmd |-> << >>, params |-> << >>, exc |-> e]

\* the for loop over msg_obj["entities"]: cmd_end is the length of the last
\* bot_command entity, and stays unbound (0 here) when there is none
RECURSIVE CmdEnd(_, _)
CmdEnd(entities, cmd_end) ==
    IF entities = << >> THEN cmd_end
    ELSE CmdEnd(Tail(entities),
                IF Head(entities).type = "bot_command"
                THEN Head(entities).length ELSE cmd_end)

HasBotCommand(entities) ==
    \E i \in 1..Len(entities) : entities[i].type = "bot_command"

\* lines 294-297: the parsed text is queued as a query when it is a dict
QueryOutcome(chat_id, params) ==
    IF ~params.ok THEN Dropped                      \* JSONDecodeError, caught
    ELSE IF params.type = "dict"
      THEN [kind |-> "query", chat |-> chat_id, cmd |-> << >>,
            params |-> params.val, exc |-> None]
    ELSE Dropped

\* lines 287-292: the command name and its arguments, cut at cmd_end
CommandOutcome(chat_id, message, cmd_end) ==
    [kind |-> "cmd", chat |-> chat_id, cmd |-> Slice(message, 1, cmd_end),
     params |-> SliceFrom(message, cmd_end), exc |-> None]

process_message(msg_obj) ==
    IF "chat" \notin DOMAIN msg_obj \/ "id" \notin DOMAIN msg_obj.chat
      THEN Dropped                                  \* KeyError, caught
    ELSE IF "text" \notin DOMAIN msg_obj
      THEN Dropped                                  \* KeyError, caught
    ELSE IF Len(msg_obj.text) >= 1 /\ msg_obj.text[1] = "/"
      THEN IF "entities" \notin DOMAIN msg_obj
             THEN Dropped                           \* KeyError, caught
           ELSE IF ~HasBotCommand(msg_obj.entities)
             THEN Raised("UnboundLocalError")       \* cmd_end never bound
           ELSE CommandOutcome(msg_obj.chat.id, msg_obj.text,
                               CmdEnd(msg_obj.entities, 0))
    ELSE QueryOutcome(msg_obj.chat.id, _deserialize(msg_obj.text))

\* process_update: update.get("message") or update.get("edited_message");
\* with neither there is nothing to do
process_update(update) ==
    IF "message" \in DOMAIN update
      THEN process_message(update.message)
    ELSE IF "edited_message" \in DOMAIN update
      THEN process_message(update.edited_message)
    ELSE Dropped

\* ------------------------------------------------------------- OffsetTracker
\* Dates are counted in days.  last_update_date is << >> for None and
\* << d >> for the datetime of day d.
NoDate == << >>

\* reset_period_expired: today - last_update_date > _reset_period; the
\* TypeError of a None date is answered False.
reset_period_expired(today, lud) ==
    IF lud = NoDate THEN FALSE ELSE today - lud[1] > ResetPeriodDays

recalculate_luid(today, lud, last, luid) ==
    IF reset_period_expired(today, lud) THEN luid ELSE Max(last, luid)

recalculate_offset(last) == last + 1

\* --------------------------------------------------------------- Dispatcher
\* The names bound in the body of process_updates when line 264 runs.
ProcessUpdatesLocals == { "self", "update_id", "date", "update" }

\* The while loop of process_updates (lines 259-262) on the queue acc.rest:
\* every update is taken off the queue and handed to process_update, whose
\* outcome goes to cmds_pending or queries; an exception leaves the rest
\* queued.  uid tags an item with the update it came from.
\* One turn of the loop: update is off the queue, update_id is raised to
\* its id, and r, the outcome of process_update, is carried out.
Route(acc, update, r) ==
    LET uid == update.update_id
        lg == Append(acc.log, [uid |-> uid, kind |-> r.kind])
        top == Max(uid, acc.update_id)
    IN  CASE r.kind = "raise" ->
               [acc EXCEPT !.update_id = top, !.rest = Tail(acc.rest),
                           !.log = lg, !.exc = r.exc]
          [] r.kind = "cmd" ->
               [acc EXCEPT !.update_id = top, !.rest = Tail(acc.rest),
                           !.log = lg,
                           !.cmds = Append(acc.cmds,
                               [chat |-> r.chat, cmd |-> r.cmd,
                                params |-> r.params, uid |-> uid])]
          [] r.kind = "query" ->
               [acc EXCEPT !.update_id = top, !.rest = Tail(acc.rest),
                           !.log = lg,
                           !.queries = Append(acc.queries,
                               [chat |-> r.chat, params |-> r.params, uid |-> uid])]
          [] OTHER ->
               [acc EXCEPT !.update_id = top, !.rest = Tail(acc.rest),
                           !.log = lg]

RECURSIVE DrainUpdates(_)
DrainUpdates(acc) ==
    IF acc.rest = << >> \/ acc.exc # None THEN acc
    ELSE DrainUpdates(Route(acc, Head(acc.rest), process_update(Head(acc.rest))))

\* a process_updates that recalculates last_update_id and leaves offset
ProcessUpdatesTailKeepsOffset(d, st, today) ==
    [d EXCEPT !.st =
        [st EXCEPT !.last_update_id =
            recalculate_luid(today, st.last_update_date,
                             st.last_update_id, d.update_id)]]

\* a process_updates that takes the largest id of the batch as it is
ProcessUpdatesTailTakesCandidate(d, st, today) ==
    [d EXCEPT !.st = [st EXCEPT !.last_update_id = d.update_id,
                                !.offset = recalculate_offset(d.update_id)]]

\* Lines 264-267 after the drain d.  Line 264 reads msg_obj, a name that
\* process_updates never binds: NameError, before any of the three
\* recalculations.  st is [offset, last_update_id, last_update_date].
ProcessUpdatesTail(d, st, today) ==
    IF d.exc # None
      THEN [d EXCEPT !.st = st]
    ELSE IF "msg_obj" \notin ProcessUpdatesLocals
      THEN [d EXCEPT !.st = st, !.exc = "NameError"]
    ELSE [d EXCEPT !.st =
             [offset |-> recalculate_offset(
                            recalculate_luid(today, st.last_update_date,
                                             st.last_update_id, d.update_id)),
              last_update_id |-> recalculate_luid(today, st.last_update_date,
                                                  st.last_update_id, d.update_id),
              last_update_date |-> st.last_update_date]]

\* process_updates on the updates queue q: what is left of the queue (rest),
\* the two output queues, the history, the exception that ends it, and the
\* offset state; expired tells whether the reset period had expired when
\* the call was made.
process_updates(q, cmds, qs, lg, st, today) ==
    ProcessUpdatesTail(
        DrainUpdates([update_id |-> 0, rest |-> q, cmds |-> cmds,
                      queries |-> qs, log |-> lg, exc |-> None, st |-> st,
                      expired |-> reset_period_expired(today, st.last_update_date)]),
        st, today)

\* ------------------------------------------------------------- QueryEngine
\* Aggregator.__init__: the parameters that are absent or empty, in order.
Missing(params) ==
    LET absent(k) == ~\E i \in 1..Len(params) : params[i].k = k
    IN  (IF absent("dt_from") THEN << "dt_from" >> ELSE << >>)
        \o (IF absent("dt_upto") THEN << "dt_upto" >> ELSE << >>)
        \o (IF absent("group_type") THEN << "group_type" >> ELSE << >>)

\* main.py:212 builds the one Aggregator with no parameters at all.
agg == [_missing |-> Missing(<< >>)]

\* agg.aggregate(**params): aggregate(self) takes no keyword, so any key in
\* params is a TypeError; with none, the text of Aggregator.aggregate.
aggregate(a, params) ==
    IF Len(params) > 0
      THEN [exc |-> "TypeError", text |-> << >>]
    ELSE IF a._missing = << >>
      THEN [exc |-> None, text |-> << "dataset", "labels" >>]
    ELSE [exc |-> None, text |-> << "Provide param" >> \o a._missing]

\* -------------------------------------------------------------------- state
VARIABLES
    \* BotBase
    is_running, _stop_session, _work_complete, _tasks, session,
    \* BotUpdateHandlerMixin
    offset, last_update_id, last_update_date,
    updates, queries, cmds_pending,
    \* main: the result queue
    query_results,
    \* the tasks main creates: where each is suspended, how each ended,
    \* which have a cancellation not yet delivered, how many have started
    pc, ended, must_cancel, started,
    \* the get_updates task of run_polling and the query_results.get() task
    \* of send_messages
    getter, rgetter,
    \* the handler tasks of handle_cmds and the send tasks of send_messages,
    \* and the ones a gather is waiting for
    handlers, senders, gathered,
    \* history: the signal has fired, the queues as they were then, the
    \* outcome of every process_update, the updates aggregated, the
    \* exceptions raised in callbacks and in calls of stop_session, the
    \* last call of process_updates (its update_id and whether the reset
    \* period had expired)
    fired, at_signal, log, aggregated, raised, called

vars == << is_running, _stop_session, _work_complete, _tasks, session,
           offset, last_update_id, last_update_date,
           updates, queries, cmds_pending, query_results,
           pc, ended, must_cancel, started, getter, rgetter,
           handlers, senders, gathered,
           fired, at_signal, log, aggregated, raised, called >>

bot_vars == << is_running, _stop_session, _work_complete, _tasks, session >>
offset_vars == << offset, last_update_id, last_update_date >>
queue_vars == << updates, queries, cmds_pending, query_results >>
history_vars == << fired, at_signal, log, aggregated, raised, called >>

\* the tasks of main.py:165-170, in the order they are created
Run == "run"
Poll == "poll"
QueryHandler == "query_handler"
Sender == "sender"
CmdHandler == "cmd_handler"
Main == "main"
Created == << Run, Poll, QueryHandler, Sender, CmdHandler >>
Tasks == { Run, Poll, QueryHandler, Sender, CmdHandler, Main }

\* main up to line 185: the five tasks are created and bot.add_tasks has
\* registered four of them; none has run yet and main waits in the shield.
Started(o, luid, lud) ==
    /\ is_running = FALSE
    /\ _stop_session = None
    /\ _work_complete = None
    /\ _tasks = { Poll, QueryHandler, Sender, CmdHandler }
    /\ session = None
    /\ offset = o
    /\ last_update_id = luid
    /\ last_update_date = lud
    /\ updates = << >>
    /\ queries = << >>
    /\ cmds_pending = << >>
    /\ query_results = << >>
    /\ pc = [t \in Tasks |->
               CASE t = Run -> "new"
                 [] t = Main -> "shield"
                 [] OTHER -> "loop"]
    /\ ended = [t \in Tasks |-> None]
    /\ must_cancel = {}
    /\ started = 0
    /\ getter = "none"
    /\ rgetter = [st |-> "none", item |-> << >>]
    /\ handlers = << >>
    /\ senders = << >>
    /\ gathered = [t \in { Sender, CmdHandler } |-> {}]
    /\ fired = FALSE
    /\ at_signal = [cmds_pending |-> << >>, queries |-> << >>]
    /\ log = << >>
    /\ aggregated = {}
    /\ raised = {}
    /\ called = << >>

\* the class attributes as tgbot.py:197-203 sets them
Init == Started(InitOffset, InitLastUpdateId, NoDate)

\* ------------------------------------------------------------------ BotBase
\* Future.set_result on the future f: None has no set_result, a future
\* already done refuses a second result.
set_result(f) ==
    CASE f = None -> [fut |-> f, exc |-> "AttributeError"]
      [] f = "done" -> [fut |-> f, exc |-> "InvalidStateError"]
      [] OTHER -> [fut |-> "done", exc |-> None]

\* BotBase.stop_session
stop_session(f) == set_result(f)

\* a complete_work that resolves _work_complete whenever a task is done
complete_work_at_once(t, tasks, wc) ==
    [tasks |-> tasks \ {t}, wc |-> set_result(wc).fut, exc |-> set_result(wc).exc]

\* BotBase.complete_work, the done callback of the four registered tasks:
\* what becomes of _tasks and _work_complete when task t is done.
complete_work(t, tasks, wc) ==
    IF tasks \ {t} = {}
    THEN [tasks |-> tasks \ {t}, wc |-> set_result(wc).fut, exc |-> set_result(wc).exc]
    ELSE [tasks |-> tasks \ {t}, wc |-> wc, exc |-> None]

\* Task t ends (returns, is cancelled or raises e) and its done callback runs.
Finished(t, how, cw) ==
    /\ pc' = [pc EXCEPT ![t] = "done"]
    /\ ended' = [ended EXCEPT ![t] = how]
    /\ must_cancel' = must_cancel \ {t}
    /\ _tasks' = cw.tasks
    /\ _work_complete' = cw.wc
    /\ raised' = IF cw.exc = None THEN raised
                 ELSE raised \cup { << "complete_work", cw.exc >> }

Finish(t, how) == Finished(t, how, complete_work(t, _tasks, _work_complete))

\* BotBase.run up to its first await: lines 77-83
RunStart ==
    /\ pc[Run] = "new"
    /\ started = 0
    /\ started' = 1
    /\ session' = "open"
    /\ is_running' = TRUE
    /\ _stop_session' = "pending"
    /\ _work_complete' = "pending"
    /\ pc' = [pc EXCEPT ![Run] = "await_stop"]
    /\ UNCHANGED << _tasks, offset_vars, queue_vars, ended, must_cancel,
                    getter, rgetter, handlers, senders, gathered, history_vars >>

\* the end of BotBase.run: the session closes, both futures are dropped
RunExit ==
    /\ session' = "closed"
    /\ _stop_session' = None
    /\ _work_complete' = None
    /\ pc' = [pc EXCEPT ![Run] = "done"]
    /\ ended' = [ended EXCEPT ![Run] = "returned"]

\* BotBase.run resumes from await self._stop_session: lines 84-85; a
\* _work_complete already done does not suspend it again
RunStopped ==
    /\ pc[Run] = "await_stop"
    /\ _stop_session = "done"
    /\ is_running' = FALSE
    /\ IF _work_complete = "done"
       THEN RunExit
       ELSE /\ pc' = [pc EXCEPT ![Run] = "await_work"]
            /\ UNCHANGED << session, _stop_session, _work_complete, ended >>
    /\ UNCHANGED << _tasks, offset_vars, queue_vars, must_cancel, started,
                    getter, rgetter, handlers, senders, gathered, history_vars >>

\* BotBase.run resumes from await self._work_complete: lines 85-87
RunFinish ==
    /\ pc[Run] = "await_work"
    /\ _work_complete = "done"
    /\ RunExit
    /\ UNCHANGED << is_running, _tasks, offset_vars, queue_vars, must_cancel,
                    started, getter, rgetter, handlers, senders, gathered,
                    history_vars >>

\* ------------------------------------------------------------------- Poller
\* A task other than run takes its first step only after the tasks created
\* before it (the loop runs them first in, first out).
FirstStep(n) == started' = IF started = n THEN n + 1 ELSE started

\* run_polling at the head of its loop: lines 313-318
RunPollingLoop ==
    /\ pc[Poll] = "loop"
    /\ started >= 1
    /\ FirstStep(1)
    /\ IF is_running
       THEN /\ getter' = "pending"
            /\ pc' = [pc EXCEPT ![Poll] = "wait"]
            /\ UNCHANGED << ended, must_cancel, _tasks, _work_complete, raised >>
       ELSE /\ Finish(Poll, "returned")
            /\ UNCHANGED getter
    /\ UNCHANGED << is_running, _stop_session, session, offset_vars,
                    queue_vars, rgetter, handlers, senders, gathered,
                    fired, at_signal, log, called, aggregated >>

\* get_updates: the platform answers ok with a batch, every update of which
\* goes on the updates queue in the platform's order.  The get_updates task
\* is created last, so it runs after the first step of the five tasks.
GetUpdatesOk ==
    /\ getter = "pending"
    /\ started = 5
    /\ \E batch \in Batches : updates' = updates \o batch
    /\ getter' = "done"
    /\ UNCHANGED << bot_vars, offset_vars, queries, cmds_pending, query_results,
                    pc, ended, must_cancel, started, rgetter, handlers,
                    senders, gathered, history_vars >>

\* get_updates: the platform answers ok = false (nothing is queued), or the
\* request raises
GetUpdatesFails ==
    /\ getter = "pending"
    /\ started = 5
    /\ getter' \in { "done", "failed" }
    /\ UNCHANGED << bot_vars, offset_vars, queue_vars,
                    pc, ended, must_cancel, started, rgetter, handlers,
                    senders, gathered, history_vars >>

\* an asyncio.wait in run_polling that watches the getter only
PollDoneGetterOnly ==
    IF getter \in { "done", "failed" } THEN { "getter" } ELSE {}

\* the futures asyncio.wait finds done in run_polling
PollDone ==
    (IF getter \in { "done", "failed" } THEN { "getter" } ELSE {})
      \cup (IF _stop_session = "done" THEN { "stopper" } ELSE {})

\* run_polling after await self.process_updates() with outcome r: an
\* exception ends the task, else it is back at the head of its loop
Processed(r) ==
    /\ updates' = r.rest
    /\ cmds_pending' = r.cmds
    /\ queries' = r.queries
    /\ log' = r.log
    /\ called' = << [update_id |-> r.update_id, expired |-> r.expired] >>
    /\ offset' = r.st.offset
    /\ last_update_id' = r.st.last_update_id
    /\ last_update_date' = r.st.last_update_date
    /\ IF r.exc # None
       THEN Finish(Poll, r.exc)
       ELSE /\ pc' = [pc EXCEPT ![Poll] = "loop"]
            /\ UNCHANGED << ended, must_cancel, _tasks, _work_complete, raised >>

\* run_polling resumes from asyncio.wait with the stopper as first:
\* getter.cancel(); break (lines 319-322)
RunPollingBreak ==
    /\ pc[Poll] = "wait"
    /\ "stopper" \in PollDone
    /\ getter' = IF getter = "pending" THEN "cancelled" ELSE getter
    /\ Finish(Poll, "returned")
    /\ UNCHANGED << offset_vars, updates, queries, cmds_pending, log, called >>
    /\ UNCHANGED << is_running, _stop_session, session, query_results,
                    started, rgetter, handlers, senders, gathered,
                    fired, at_signal, aggregated >>

\* run_polling resumes from asyncio.wait with the getter as first, and
\* awaits process_updates (lines 319-323)
RunPollingProcess ==
    /\ pc[Poll] = "wait"
    /\ "getter" \in PollDone
    /\ UNCHANGED getter
    /\ \E today \in Days :
         Processed(process_updates(updates, cmds_pending, queries, log,
             [offset |-> offset, last_update_id |-> last_update_id,
              last_update_date |-> last_update_date], today))
    /\ UNCHANGED << is_running, _stop_session, session, query_results,
                    started, rgetter, handlers, senders, gathered,
                    fired, at_signal, aggregated >>

\* run_polling resumes from asyncio.wait: done.pop() takes either future
\* when both are done.
RunPollingWake == RunPollingBreak \/ RunPollingProcess

\* ------------------------------------------------------------ QueryExecutor
\* handle_query from the head of its loop (QueryLoop) and from a get() that
\* has an item to return (QueryBody), up to the next suspension or the end
\* of the task: lines 101-106.  running is bot.is_running during the step.
RECURSIVE QueryLoop(_, _, _, _), QueryBody(_, _, _, _)
QueryLoop(q, res, done, running) ==
    IF ~running
      THEN [pc |-> "done", ended |-> "returned", queries |-> q,
            results |-> res, aggregated |-> done]
    ELSE IF q = << >>
      THEN [pc |-> "get", ended |-> None, queries |-> q,
            results |-> res, aggregated |-> done]
    ELSE QueryBody(q, res, done, running)

QueryBody(q, res, done, running) ==
    LET item == Head(q)
        result == aggregate(agg, item.params)
    IN  IF result.exc # None
        THEN [pc |-> "done", ended |-> result.exc, queries |-> Tail(q),
              results |-> res, aggregated |-> done]
        ELSE QueryLoop(Tail(q),
                       Append(res, [chat |-> item.chat, text |-> result.text,
                                    uid |-> item.uid]),
                       done \cup { item.uid }, running)

\* what a step of handle_query leaves behind
HandleQueryStep(r) ==
    /\ queries' = r.queries
    /\ query_results' = r.results
    /\ aggregated' = r.aggregated
    /\ IF r.pc = "done"
       THEN Finish(QueryHandler, r.ended)
       ELSE /\ pc' = [pc EXCEPT ![QueryHandler] = r.pc]
            /\ UNCHANGED << ended, must_cancel, _tasks, _work_complete, raised >>

\* handle_query takes its first step
HandleQueryStart ==
    /\ pc[QueryHandler] = "loop"
    /\ started = 2
    /\ started' = 3
    /\ HandleQueryStep(QueryLoop(queries, query_results, aggregated, is_running))
    /\ UNCHANGED << is_running, _stop_session, session, offset_vars, updates,
                    cmds_pending, getter, rgetter, handlers, senders, gathered,
                    fired, at_signal, log, called >>

\* handle_query resumes from await bot.queries.get(): with CancelledError
\* when main has cancelled it (the item, if any, stays queued), else with
\* the head of the queue
HandleQueryResume ==
    /\ pc[QueryHandler] = "get"
    /\ IF QueryHandler \in must_cancel
       THEN /\ Finish(QueryHandler, "cancelled")
            /\ UNCHANGED << queries, query_results, aggregated >>
       ELSE /\ queries # << >>
            /\ HandleQueryStep(QueryBody(queries, query_results, aggregated,
                                         is_running))
    /\ UNCHANGED << is_running, _stop_session, session, offset_vars, updates,
                    cmds_pending, started, getter, rgetter, handlers, senders,
                    gathered, fired, at_signal, log, called >>

\* ---------------------------------------------------------- CommandExecutor
\* handle_cmds from the head of its loop (CmdLoop) and from a get() that has
\* an item (CmdBody): lines 89-97.  bot.commands[cmd] is a KeyError for a
\* name nobody registered; a registered command's callback becomes a task.
RECURSIVE CmdLoop(_, _, _), CmdBody(_, _, _)
CmdLoop(q, hs, running) ==
    IF ~running
      THEN [pc |-> "gather", ended |-> None, cmds_pending |-> q, handlers |-> hs]
    ELSE IF q = << >>
      THEN [pc |-> "get", ended |-> None, cmds_pending |-> q, handlers |-> hs]
    ELSE CmdBody(q, hs, running)

CmdBody(q, hs, running) ==
    LET item == Head(q)
    IN  IF item.cmd \notin commands
        THEN [pc |-> "done", ended |-> "KeyError", cmds_pending |-> Tail(q),
              handlers |-> hs]
        ELSE CmdLoop(Tail(q),
                     Append(hs, [owner |-> CmdHandler, chat |-> item.chat,
                                 cmd |-> item.cmd, uid |-> item.uid,
                                 st |-> "inflight"]),
                     running)

\* the tasks of ts still in flight: what a handlers / senders set holds
InFlight(ts) == { i \in 1..Len(ts) : ts[i].st = "inflight" }

\* await asyncio.gather(*tasks) without return_exceptions: returns when all
\* have a result, raises the first exception as soon as one has failed
GatherState(ts, which) ==
    IF \E i \in which : ts[i].st = "failed" THEN "raised"
    ELSE IF \A i \in which : ts[i].st = "ok" THEN "returned"
    ELSE "pending"

HandleCmdsStep(r) ==
    /\ cmds_pending' = r.cmds_pending
    /\ handlers' = r.handlers
    /\ IF r.pc = "done"
         THEN /\ Finish(CmdHandler, r.ended)
              /\ UNCHANGED gathered
       ELSE IF r.pc = "gather" /\ InFlight(r.handlers) = {}
         THEN /\ Finish(CmdHandler, "returned")
              /\ UNCHANGED gathered
       ELSE /\ pc' = [pc EXCEPT ![CmdHandler] = r.pc]
            /\ gathered' = IF r.pc = "gather"
                           THEN [gathered EXCEPT ![CmdHandler] = InFlight(r.handlers)]
                           ELSE gathered
            /\ UNCHANGED << ended, must_cancel, _tasks, _work_complete, raised >>

\* handle_cmds takes its first step
HandleCmdsStart ==
    /\ pc[CmdHandler] = "loop"
    /\ started = 4
    /\ started' = 5
    /\ HandleCmdsStep(CmdLoop(cmds_pending, handlers, is_running))
    /\ UNCHANGED << is_running, _stop_session, session, offset_vars, updates,
                    queries, query_results, getter, rgetter, senders,
                    fired, at_signal, log, called, aggregated >>

\* handle_cmds resumes: with CancelledError when main has cancelled it (in
\* get() the item stays queued and the handlers are left running, in the
\* gather the handlers are cancelled with it), with the head of the queue,
\* or from the gather of line 97
HandleCmdsResume ==
    /\ pc[CmdHandler] \in { "get", "gather" }
    /\ IF CmdHandler \in must_cancel
         THEN /\ Finish(CmdHandler, "cancelled")
              /\ handlers' = IF pc[CmdHandler] = "gather"
                             THEN [i \in 1..Len(handlers) |->
                                     IF i \in gathered[CmdHandler] /\ handlers[i].st = "inflight"
                                     THEN [handlers[i] EXCEPT !.st = "cancelled"]
                                     ELSE handlers[i]]
                             ELSE handlers
              /\ UNCHANGED << cmds_pending, gathered >>
       ELSE IF pc[CmdHandler] = "get"
         THEN /\ cmds_pending # << >>
              /\ HandleCmdsStep(CmdBody(cmds_pending, handlers, is_running))
       ELSE /\ GatherState(handlers, gathered[CmdHandler]) # "pending"
            /\ Finish(CmdHandler,
                      IF GatherState(handlers, gathered[CmdHandler]) = "raised"
                      THEN "Exception" ELSE "returned")
            /\ UNCHANGED << cmds_pending, handlers, gathered >>
    /\ UNCHANGED << is_running, _stop_session, session, offset_vars, updates,
                    queries, query_results, started, getter, rgetter, senders,
                    fired, at_signal, log, called, aggregated >>

\* a handler task (_start_cb, _help_cb) ends: its bot.post got its answer, or
\* raised; on a closed session it can only raise
HandlerDone ==
    /\ \E i \in InFlight(handlers) :
         \E how \in { "ok", "failed" } :
            /\ how = "ok" => session = "open"
            /\ handlers' = [handlers EXCEPT ![i].st = how]
    /\ UNCHANGED << bot_vars, offset_vars, queue_vars, pc, ended, must_cancel,
                    started, getter, rgetter, senders, gathered, history_vars >>

\* ------------------------------------------------------------------- Sender
\* send_messages at the head of its loop: line 114, then either the getter
\* task and asyncio.wait of lines 115-119, or the gather of line 131
SendMessagesLoop(ss) ==
    IF is_running
    THEN /\ rgetter' = [st |-> "pending", item |-> << >>]
         /\ pc' = [pc EXCEPT ![Sender] = "wait"]
         /\ UNCHANGED << gathered, ended, must_cancel, _tasks, _work_complete, raised >>
    ELSE /\ rgetter' = [rgetter EXCEPT !.item = << >>]
         /\ IF InFlight(ss) = {}
            THEN /\ Finish(Sender, "returned")
                 /\ UNCHANGED gathered
            ELSE /\ pc' = [pc EXCEPT ![Sender] = "gather131"]
                 /\ gathered' = [gathered EXCEPT ![Sender] = InFlight(ss)]
                 /\ UNCHANGED << ended, must_cancel, _tasks, _work_complete, raised >>

\* send_messages takes its first step
SendMessagesStart ==
    /\ pc[Sender] = "loop"
    /\ started = 3
    /\ started' = 4
    /\ SendMessagesLoop(senders)
    /\ UNCHANGED << is_running, _stop_session, session, offset_vars, queue_vars,
                    getter, handlers, senders, fired, at_signal, log, called, aggregated >>

\* the task of bot.query_results.get() takes the head of the result queue
ResultGetterGets ==
    /\ rgetter.st = "pending"
    /\ query_results # << >>
    /\ rgetter' = [st |-> "done", item |-> << Head(query_results) >>]
    /\ query_results' = Tail(query_results)
    /\ UNCHANGED << bot_vars, offset_vars, updates, queries, cmds_pending,
                    pc, ended, must_cancel, started, getter, handlers, senders,
                    gathered, history_vars >>

\* the futures asyncio.wait finds done in send_messages
SendDone ==
    (IF rgetter.st = "done" THEN { "getter" } ELSE {})
      \cup (IF pc[Poll] = "done" THEN { "poller" } ELSE {})

\* send_messages resumes from asyncio.wait: lines 120-130 and back to the
\* head of the loop.  done.pop() takes either future when both are done;
\* with the poller first, the gather of line 122 (which does not suspend
\* when no send is in flight), getter.cancel() and return.
SendMessagesWake ==
    /\ pc[Sender] = "wait"
    /\ \E first \in SendDone :
         IF first # "getter"
         THEN /\ UNCHANGED senders
              /\ IF InFlight(senders) = {}
                 THEN /\ rgetter' = IF rgetter.st = "pending"
                                    THEN [rgetter EXCEPT !.st = "cancelled"]
                                    ELSE rgetter
                      /\ Finish(Sender, "returned")
                      /\ UNCHANGED gathered
                 ELSE /\ pc' = [pc EXCEPT ![Sender] = "gather122"]
                      /\ gathered' = [gathered EXCEPT ![Sender] = InFlight(senders)]
                      /\ UNCHANGED << rgetter, ended, must_cancel, _tasks,
                                      _work_complete, raised >>
         ELSE LET item == rgetter.item[1]
                  ss == Append(senders, [owner |-> Sender, chat |-> item.chat,
                                         text |-> item.text, uid |-> item.uid,
                                         st |-> "inflight"])
              IN  /\ senders' = ss
                  /\ SendMessagesLoop(ss)
    /\ UNCHANGED << is_running, _stop_session, session, offset_vars, queue_vars,
                    started, getter, handlers, fired, at_signal, log, called, aggregated >>

\* send_messages resumes from a gather: line 122 (then getter.cancel() and
\* return) or line 131; the first failed send makes the gather raise
SendMessagesGathered ==
    /\ pc[Sender] \in { "gather122", "gather131" }
    /\ GatherState(senders, gathered[Sender]) # "pending"
    /\ IF GatherState(senders, gathered[Sender]) = "raised"
       THEN /\ Finish(Sender, "Exception")
            /\ UNCHANGED rgetter
       ELSE /\ Finish(Sender, "returned")
            /\ rgetter' = IF pc[Sender] = "gather122" /\ rgetter.st = "pending"
                          THEN [rgetter EXCEPT !.st = "cancelled"]
                          ELSE rgetter
    /\ UNCHANGED << is_running, _stop_session, session, offset_vars, queue_vars,
                    started, getter, handlers, senders, gathered,
                    fired, at_signal, log, called, aggregated >>

\* a send task ends: its bot.post("sendMessage") got its answer, or raised;
\* on a closed session it can only raise
SendTaskDone ==
    /\ \E i \in InFlight(senders) :
         \E how \in { "ok", "failed" } :
            /\ how = "ok" => session = "open"
            /\ senders' = [senders EXCEPT ![i].st = how]
    /\ UNCHANGED << bot_vars, offset_vars, queue_vars, pc, ended, must_cancel,
                    started, getter, rgetter, handlers, gathered, history_vars >>

\* ------------------------------------------------------ ShutdownCoordinator
\* main is cancelled in the shield of line 185: lines 186-193.  The five
\* tasks have taken their first step by then.  stop_session fires the
\* signal; Task.cancel() on a task not yet done is delivered at its next step.
CancelRequestsNone == {}

\* lines 191-192: query_handler.cancel() and cmd_handler.cancel(); cancelling
\* a task already done does nothing
CancelRequests == { t \in { QueryHandler, CmdHandler } : pc[t] # "done" }

MainCancelled ==
    /\ pc[Main] = "shield"
    /\ started = 5
    /\ LET r == stop_session(_stop_session)
       IN  IF r.exc # None
           THEN /\ pc' = [pc EXCEPT ![Main] = "done"]
                /\ ended' = [ended EXCEPT ![Main] = r.exc]
                /\ UNCHANGED << _stop_session, must_cancel, fired, at_signal >>
           ELSE /\ _stop_session' = r.fut
                /\ fired' = TRUE
                /\ at_signal' = [cmds_pending |-> cmds_pending, queries |-> queries]
                /\ must_cancel' = must_cancel \cup CancelRequests
                /\ pc' = [pc EXCEPT ![Main] = "gather"]
                /\ UNCHANGED ended
    /\ UNCHANGED << is_running, _work_complete, _tasks, session, offset_vars,
                    queue_vars, started, getter, rgetter, handlers, senders,
                    gathered, log, called, aggregated, raised >>

\* what asyncio.run does to a task left over when main has returned
CancelLeftover(ts) ==
    [i \in 1..Len(ts) |->
        IF ts[i].st = "inflight" THEN [ts[i] EXCEPT !.st = "cancelled"] ELSE ts[i]]

\* main resumes from await gather (line 193) when run and the four registered
\* tasks are done, and returns; asyncio.run (line 213) then cancels whatever
\* task is left and closes the loop
MainReturns ==
    /\ pc[Main] = "gather"
    /\ \A i \in 1..Len(Created) : pc[Created[i]] = "done"
    /\ pc' = [pc EXCEPT ![Main] = "done"]
    /\ ended' = [ended EXCEPT ![Main] = "returned"]
    /\ handlers' = CancelLeftover(handlers)
    /\ senders' = CancelLeftover(senders)
    /\ rgetter' = IF rgetter.st = "pending"
                  THEN [rgetter EXCEPT !.st = "cancelled"] ELSE rgetter
    /\ UNCHANGED << bot_vars, offset_vars, queue_vars, must_cancel, started,
                    getter, gathered, history_vars >>

\* ------------------------------------------------------------ specification
Next ==
    \/ RunStart
    \/ RunStopped
    \/ RunFinish
    \/ RunPollingLoop
    \/ GetUpdatesOk
    \/ GetUpdatesFails
    \/ RunPollingWake
    \/ HandleQueryStart
    \/ HandleQueryResume
    \/ HandleCmdsStart
    \/ HandleCmdsResume
    \/ HandlerDone
    \/ SendMessagesStart
    \/ ResultGetterGets
    \/ SendMessagesWake
    \/ SendMessagesGathered
    \/ SendTaskDone
    \/ MainCancelled
    \/ MainReturns

Spec == Init /\ [][Next]_vars

\* The steps the event loop itself brings about: a ready task is run, a
\* send-message call that is under way gets its answer or fails.  Of the
\* two ways run_polling resumes, the one on the stopper is enough here.
Scheduled ==
    \/ RunStart \/ RunStopped \/ RunFinish
    \/ RunPollingLoop \/ RunPollingBreak
    \/ HandleQueryStart \/ HandleQueryResume
    \/ HandleCmdsStart \/ HandleCmdsResume
    \/ SendMessagesStart \/ ResultGetterGets
    \/ SendMessagesWake \/ SendMessagesGathered
    \/ HandlerDone \/ SendTaskDone
    \/ MainReturns

\* The event loop does not stop while a task is ready or a send is under
\* way.  Nothing makes getUpdates answer (a long poll), and nothing makes
\* main be cancelled.
SpecFair == Spec /\ WF_vars(Scheduled)

\* process_updates called on every state of the tracker: last_update_id at
\* its initial value or above every id of the batch, last_update_date None
\* or day 0, offset one past last_update_id.
TrackedIds == { InitLastUpdateId, BaseId + MaxBatch }
TrackedDates == { NoDate, << 0 >> }

InitTracker ==
    \E luid \in TrackedIds, lud \in TrackedDates :
        Started(recalculate_offset(luid), luid, lud)

SpecTracker == InitTracker /\ [][Next]_vars

\* A second call of BotBase.stop_session, after the signal has fired: what
\* set_result raises is recorded.
StopSessionAgain ==
    /\ fired
    /\ LET r == stop_session(_stop_session)
       IN  IF r.exc # None
           THEN /\ raised' = raised \cup { << "stop_session", r.exc >> }
                /\ UNCHANGED _stop_session
           ELSE /\ _stop_session' = r.fut
                /\ UNCHANGED raised
    /\ UNCHANGED << is_running, _work_complete, _tasks, session, offset_vars,
                    queue_vars, pc, ended, must_cancel, started, getter, rgetter,
                    handlers, senders, gathered, fired, at_signal, log, called, aggregated >>

SpecStopTwice == Init /\ [][Next \/ StopSessionAgain]_vars

\* ------------------------------------------------------------------- claims
Uids(q) == { q[i].uid : i \in DOMAIN q }
Routed(kind) == { i \in DOMAIN log : log[i].kind = kind }
SeenIds == { log[i].uid : i \in DOMAIN log }
MaxOf(S) == CHOOSE m \in S : \A x \in S : x <= m

\* the updates whose handler / send task ended with its answer
Handled == { handlers[i].uid : i \in { j \in DOMAIN handlers : handlers[j].st = "ok" } }
Sent == { senders[i].uid : i \in { j \in DOMAIN senders : senders[j].st = "ok" } }

\* C1: when BotBase.run has returned after a shutdown that cancelled both
\* executors, every command that was on cmds_pending when the signal fired
\* has had its handler complete, and every query that was on queries then
\* has been aggregated and its result sent.
C1_ShutdownDrains ==
    ( /\ pc[Run] = "done"
      /\ ended[QueryHandler] = "cancelled"
      /\ ended[CmdHandler] = "cancelled" )
    => /\ Uids(at_signal.cmds_pending) \subseteq Handled
       /\ Uids(at_signal.queries) \subseteq aggregated \cap Sent

\* C2: every update put on the updates queue is taken off it once and ends
\* as exactly one of: a command on cmds_pending, a query on queries, dropped;
\* and none is left on the updates queue once the poller has stopped.
C2_EveryUpdateClassifiedOnce ==
    /\ \A i \in DOMAIN log : log[i].kind \in { "cmd", "query", "drop" }
    /\ \A i, j \in DOMAIN log : log[i].uid = log[j].uid => i = j
    /\ Uids(cmds_pending) \cap Uids(queries) = {}
    /\ \A i \in DOMAIN updates : updates[i].update_id \notin SeenIds
    /\ pc[Poll] = "done" => updates = << >>

\* C3: once process_updates has drained a batch (the freshness window is
\* never expired here: last_update_date is None), offset is the largest
\* update id seen so far plus one.
C3_OffsetIsMaxSeenPlusOne ==
    ( /\ log # << >>
      /\ updates = << >>
      /\ \A i \in DOMAIN log : log[i].kind # "raise" )
    => offset = MaxOf(SeenIds) + 1

\* C4: process_update returns normally on every update, and after a batch
\* of updates that are all dropped the polling loop is still alive.
C4_NoUpdateIsFatal ==
    /\ \A i \in DOMAIN log : log[i].kind # "raise"
    /\ ( log # << >> /\ \A i \in DOMAIN log : log[i].kind = "drop" )
         => ended[Poll] \in { None, "returned" }

\* C5: handle_query has put exactly one result on query_results for every
\* query it has taken off queries, and no query ends the executor.
C5_OneResultPerQuery ==
    /\ Cardinality(Routed("query")) - Len(queries) = Cardinality(aggregated)
    /\ ended[QueryHandler] \in { None, "cancelled", "returned" }

\* C6: after shutdown, while a handler task that handle_cmds started is
\* still running, the cmd_handler task has not finished and BotBase.run has
\* not returned; and no such handler is ever cancelled.
C6_HandlersOutliveNothing ==
    /\ ( fired /\ ended[CmdHandler] = "cancelled" ) => InFlight(handlers) = {}
    /\ ( pc[Run] = "done" /\ ended[CmdHandler] = "cancelled" )
          => \A i \in DOMAIN handlers : handlers[i].st \in { "ok", "failed" }

\* C7: when send_messages has returned no send task it started is in
\* flight, and BotBase.run does not return while one is.
C7_SendsAwaited ==
    /\ ended[Sender] = "returned" => InFlight(senders) = {}
    /\ pc[Run] = "done" => \A i \in DOMAIN senders : senders[i].st \in { "ok", "failed" }

\* the Sender no longer pulls from the result queue
SenderStopped == pc[Sender] \in { "gather122", "gather131", "done" }

\* a stage upstream of the Sender holds an item or can still produce one
CanRun(t) == pc[t] # "done" /\ t \notin must_cancel
UpstreamBusy ==
    \/ CanRun(Poll)
    \/ updates # << >>
    \/ queries # << >>
    \/ cmds_pending # << >>
    \/ InFlight(handlers) # {}

\* C8: after the signal has fired, the Sender has not stopped pulling while
\* the Dispatcher, the CommandExecutor or the QueryExecutor holds or can
\* still produce an item.
C8_SenderStopsLast == ( fired /\ SenderStopped ) => ~UpstreamBusy

\* C9: once the signal has fired, no step takes an item off cmds_pending or
\* queries, starts a handler task or runs an aggregation.
C9_NoAdmissionAfterSignal ==
    [][ fired => /\ Len(handlers') = Len(handlers)
                 /\ aggregated' = aggregated
                 /\ Len(queries') >= Len(queries)
                 /\ Len(cmds_pending') >= Len(cmds_pending) ]_vars

\* C9 witness: the signal has fired, both executors ended cancelled, and each
\* left an item on its queue
C9_Witness ==
    /\ fired
    /\ ended[QueryHandler] = "cancelled" /\ queries # << >>
    /\ ended[CmdHandler] = "cancelled" /\ cmds_pending # << >>

\* C10: a call of stop_session after the signal has fired raises nothing,
\* and the signal stays fired.
C10_StopSessionIdempotent ==
    fired => /\ _stop_session = "done"
             /\ \A e \in raised : e[1] # "stop_session"

\* the step is a call of process_updates: run_polling leaves asyncio.wait
\* otherwise than by its break
ProcessUpdatesCalled ==
    /\ pc[Poll] = "wait"
    /\ pc'[Poll] # "wait"
    /\ ended'[Poll] # "returned"

Taken(q, q2) == { i \in DOMAIN q : q[i].uid \notin Uids(q2) }

\* C12: a step of handle_cmds that takes a command with no registered
\* handler off cmds_pending starts no handler task for it and raises
\* nothing, and every registered command the step takes has its handler
\* task started.
C12_UnknownCommandDropped ==
    [][ \A i \in Taken(cmds_pending, cmds_pending') :
          IF cmds_pending[i].cmd \in commands
          THEN cmds_pending[i].uid \in Uids(handlers')
          ELSE /\ cmds_pending[i].uid \notin Uids(handlers')
               /\ ended'[CmdHandler] \in { None, "returned" } ]_vars

\* the message object of an update that has one
MessageOf(update) ==
    IF "message" \in DOMAIN update THEN update.message ELSE update.edited_message

\* the length of the leading bot_command entity: the one at offset 0
LeadingLength(entities) ==
    LET i == CHOOSE k \in 1..Len(entities) :
                 entities[k].type = "bot_command" /\ entities[k].offset = 0
    IN  entities[i].length

\* C13: every command that process_updates puts on cmds_pending is cut from
\* its message at the length L of the leading bot_command entity: the name
\* is text[1:L], the arguments are text[L:], whatever other entities the
\* message carries.
C13_CommandCutAtLeadingEntity ==
    [][ \A i \in DOMAIN cmds_pending' :
          cmds_pending'[i].uid \notin Uids(cmds_pending)
            => \A j \in DOMAIN updates :
                 updates[j].update_id = cmds_pending'[i].uid
                   => /\ cmds_pending'[i].cmd
                           = Slice(MessageOf(updates[j]).text, 1,
                                   LeadingLength(MessageOf(updates[j]).entities))
                      /\ cmds_pending'[i].params
                           = SliceFrom(MessageOf(updates[j]).text,
                                       LeadingLength(MessageOf(updates[j]).entities)) ]_vars

\* C14: a step of handle_query that takes off the query queue a query with
\* dt_from and dt_upto but no group_type puts on query_results a result for
\* the same chat whose text names group_type, and only it, as missing.
C14_MissingGroupTypeReported ==
    [][ \A i \in Taken(queries, queries') :
          Missing(queries[i].params) = << "group_type" >>
            => \E j \in DOMAIN query_results' :
                 /\ query_results'[j].uid = queries[i].uid
                 /\ query_results'[j].chat = queries[i].chat
                 /\ query_results'[j].text = << "Provide param", "group_type" >> ]_vars

\* C15: offset = last_update_id + 1 in every state: initially, whenever
\* get_updates builds its request, and after every call of process_updates.
C15_OffsetIsLastIdPlusOne == offset = last_update_id + 1

\* C15 witness: a batch has been through process_updates
C15_Witness == called # << >> /\ log # << >> /\ offset = last_update_id + 1

\* C16: when run_polling has left its loop on the shutdown signal, nothing
\* of the poll it abandoned is on the updates queue: a poll's updates are
\* queued and then processed, or not queued at all.
C16_AbandonedPollQueuesNothing ==
    ( fired /\ ended[Poll] = "returned" ) => updates = << >>

\* C17: while the signal has not fired the Sender keeps pulling: it has not
\* stopped with a result left on query_results or taken by its getter and
\* never sent.
C17_SenderPullsUntilShutdown ==
    ~fired => /\ query_results # << >> => ~SenderStopped
              /\ rgetter.item # << >> => ~SenderStopped

\* C18: a getUpdates request that raised has queued nothing, and while the
\* signal has not fired the polling loop has not ended because of it.
C18_PollFailureNotFatal ==
    getter = "failed" => /\ updates = << >>
                         /\ ~fired => ended[Poll] = None

\* the timestamps carried by the updates on queue q
DatesOf(q) ==
    { MessageOf(q[i]).date :
        i \in { j \in DOMAIN q :
                  /\ DOMAIN q[j] \cap { "message", "edited_message" } # {}
                  /\ "date" \in DOMAIN MessageOf(q[j]) } }

\* C19: a call of process_updates completes without error and leaves
\* last_update_date at the latest timestamp of the batch it drained, or at
\* its previous value (None stays None) when the batch carries none.
C19_LastUpdateDateFollowsBatch ==
    [][ ProcessUpdatesCalled
          => /\ ended'[Poll] = None
             /\ last_update_date' = IF DatesOf(updates) = {}
                                    THEN last_update_date
                                    ELSE << MaxOf(DatesOf(updates)) >> ]_vars

\* C20: a call of process_updates made while the reset period has not
\* expired (last_update_date None included) decreases neither
\* last_update_id nor offset, and leaves both as they are when the batch is
\* empty or all its ids are below last_update_id.
C20_NoDecreaseWhileFresh ==
    [][ ( ProcessUpdatesCalled /\ ~called'[1].expired )
          => /\ last_update_id' >= last_update_id
             /\ offset' >= offset
             /\ called'[1].update_id <= last_update_id
                  => /\ last_update_id' = last_update_id
                     /\ offset' = offset ]_vars

\* C20 witness: process_updates has drained, inside the reset period, a
\* batch whose ids are all below last_update_id
C20_Witness ==
    /\ called # << >>
    /\ ~called[1].expired
    /\ called[1].update_id >= BaseId
    /\ called[1].update_id < last_update_id
    /\ last_update_date # NoDate

\* the tasks main registers through bot.add_tasks
Registered == { Poll, QueryHandler, Sender, CmdHandler }

\* C21: BotBase.run has not returned while a registered task is unfinished;
\* _work_complete is resolved only when the last registered task is done;
\* complete_work never resolves it twice and never finds it None (no
\* exception is raised in complete_work); _tasks holds the registered tasks
\* still unfinished.
C21_RunOutlivesRegisteredTasks ==
    /\ pc[Run] = "done" => \A t \in Registered : pc[t] = "done"
    /\ _work_complete = "done" => \A t \in Registered : pc[t] = "done"
    /\ _tasks = { t \in Registered : pc[t] # "done" }
    /\ \A e \in raised : e[1] # "complete_work"

\* C21 witness: BotBase.run has returned after the four registered tasks
\* ended, each in its own way
C21_Witness ==
    /\ ended[Run] = "returned"
    /\ ended[Poll] = "NameError"
    /\ ended[Sender] = "returned"
    /\ ended[QueryHandler] = "cancelled"
    /\ ended[CmdHandler] = "KeyError"

\* C22: once main has been cancelled (the signal fired, the executors were
\* asked to cancel), the four registered tasks all finish and BotBase.run
\* returns, whatever the queues hold, given that the event loop runs every
\* ready task and every send-message call under way completes.
C22_ShutdownTerminates ==
    fired ~> ( /\ ended[Run] = "returned"
               /\ \A t \in Registered : pc[t] = "done" )

\* C22 witness: shutdown has run to its end with a command and a query
\* left on their queues
C22_Witness ==
    /\ fired
    /\ ended[Run] = "returned"
    /\ pc[Main] = "done"
    /\ \A t \in Registered : pc[t] = "done"
    /\ cmds_pending # << >>
    /\ queries # << >>

====
